---- MODULE Spec2Model ----
(***************************************************************************)
(* A model of the stockopt program: main reads a gain/loss statement,      *)
(* filters its entries, and solve() hands the surviving lots to the        *)
(* allocator (package solver), re-sorts the allocation into statement      *)
(* order and totals it.  The packages solver, statement and currency are   *)
(* not part of the sources at hand; the allocator is modelled from its     *)
(* written design (partition, headroom, ranking, walk).                    *)
(***************************************************************************)
EXTENDS Integers, Sequences, FiniteSets

\* ---------------------------------------------------------------- bounds
\* Longest statement (number of rows) explored.
MaxLots == 3
\* Gains caps explored are -MaxDebit .. MaxCap (in currency minor units).
MaxCap == 4
MaxDebit == 2

\* ------------------------------------------------------- program constants
\* flag "age", default 12 months
DefaultAgeMonths == 12
\* flag "tax", default 20 percent
DefaultTaxRate == 20

DefaultPlan == "GSU Class C"

VARIABLES
    pc,            \* position of main: start, parsed, summary, solved, fatal
    stmt,          \* the rows of the input statement, in file order
    ageMonths,     \* flag -age
    planFilter,    \* flag -plan
    allowLoss,     \* flag -loss
    taxRate,       \* flag -tax
    maxGain,       \* flag -gain after currency.ParseUSD
    es,            \* entries returned by statement.ParseXLS
    totalShares, totalValue, totalGain, totalBasis,
    soln,          \* solve(): the allocation after sort.Slice
    soldShares, soldValue, soldGains, costBasis,
    tax            \* solve(): the gains tax line

vars == <<pc, stmt, ageMonths, planFilter, allowLoss, taxRate, maxGain, es,
          totalShares, totalValue, totalGain, totalBasis,
          soln, soldShares, soldValue, soldGains, costBasis, tax>>

\* ------------------------------------------------------------ input rows
\* A statement row: shares available, per-share price, per-share gain,
\* per-share issue price, acquisition month relative to now (now = 0),
\* and the plan the shares were issued under.
Row(av, price, gain, acq, plan) ==
    [Available |-> av, Price |-> price, Gain |-> gain,
     IssuePrice |-> price - gain, Acquired |-> acq, Plan |-> plan]

Rows ==
    { Row(2, 2, 1, -18, DefaultPlan),     \* gain lot, ratio 2
      Row(1, 3, 2, -18, DefaultPlan),     \* gain lot, ratio 3/2
      Row(1, 4, 2, -18, DefaultPlan),     \* gain lot, ratio 2 (a tie)
      Row(2, 1, 1, -18, DefaultPlan),     \* gain lot, ratio 1
      Row(2, 1, -1, -18, DefaultPlan),    \* loss lot
      Row(1, 2, 0, -18, DefaultPlan),     \* neutral lot
      Row(-1, 2, 1, -18, DefaultPlan),    \* negative share count
      Row(1, 2, 1, -6, DefaultPlan),      \* too young
      Row(1, 2, -1, -18, "ESPP") }        \* another plan, at a loss

RECURSIVE SeqsUpTo(_)
SeqsUpTo(n) ==
    IF n = 0 THEN { <<>> }
    ELSE LET shorter == SeqsUpTo(n - 1)
         IN  shorter \cup { Append(s, r) : s \in { t \in shorter : Len(t) = n - 1 }, r \in Rows }

\* The statements explored: every sequence of at most MaxLots rows, each
\* row tagged with its position (statement.Entry.Index).
Indexed(s) == [i \in 1..Len(s) |->
    [Index |-> i, Available |-> s[i].Available, Price |-> s[i].Price,
     Gain |-> s[i].Gain, IssuePrice |-> s[i].IssuePrice,
     Acquired |-> s[i].Acquired, Plan |-> s[i].Plan]]

Statements == { Indexed(s) : s \in SeqsUpTo(MaxLots) }

Caps == (0 - MaxDebit)..MaxCap

\* ---------------------------------------------------------------- helpers
RECURSIVE SumSeq(_, _)
SumSeq(f(_), s) == IF s = <<>> THEN 0 ELSE f(Head(s)) + SumSeq(f, Tail(s))

\* Go's integer division truncates toward zero.
TruncDiv(a, b) == IF a >= 0 THEN a \div b ELSE 0 - ((0 - a) \div b)

\* ------------------------------------------------------------------- main
\* Filter as it would be with the -loss test left out.
FilterIgnoringLoss(e, age, plan, loss) ==
    /\ e.Available > 0
    /\ e.Acquired < 0 - age
    /\ (plan = "" \/ e.Plan = plan)

\* The Filter closure main passes to statement.ParseXLS.
Filter(e, age, plan, loss) ==
    /\ e.Available > 0
    /\ e.Acquired < 0 - age
    /\ (plan = "" \/ e.Plan = plan)
    /\ (e.Gain >= 0 \/ loss)

\* statement.ParseXLS: the rows the filter accepts, in statement order.
ParseXLS(rows, age, plan, loss) ==
    SelectSeq(rows, LAMBDA e : Filter(e, age, plan, loss))

\* es2e as it would be with the share count off by one.
es2eOffByOne(ents) ==
    [i \in 1..Len(ents) |->
        [ID |-> ents[i], N |-> ents[i].Available + 1,
         Value |-> ents[i].Price, Gain |-> ents[i].Gain]]

\* es2e as it would be with Value and Gain filled from each other's field.
es2eSwapped(ents) ==
    [i \in 1..Len(ents) |->
        [ID |-> ents[i], N |-> ents[i].Available,
         Value |-> ents[i].Gain, Gain |-> ents[i].Price]]

\* es2e as it would be with the sign of the gain lost.
es2eNegatedGain(ents) ==
    [i \in 1..Len(ents) |->
        [ID |-> ents[i], N |-> ents[i].Available,
         Value |-> ents[i].Price, Gain |-> 0 - ents[i].Gain]]

\* es2e converts statement entries to solver entries.
es2e(ents) ==
    [i \in 1..Len(ents) |->
        [ID |-> ents[i], N |-> ents[i].Available,
         Value |-> ents[i].Price, Gain |-> ents[i].Gain]]

\* -------------------------------------------------- the allocator (solver)
\* Step 1: the loss or neutral lots, and the gain lots.
IsGainLot(e) == e.Gain > 0

LossLots(lots) == SelectSeq(lots, LAMBDA e : ~IsGainLot(e))

GainLots(lots) == SelectSeq(lots, LAMBDA e : IsGainLot(e))

LotGain(e) == e.N * e.Gain

LotValue(e) == e.N * e.Value

\* Step 2: what is left of the cap once every loss or neutral lot is sold.
Headroom(lots, cap) == cap - SumSeq(LotGain, LossLots(lots))

\* Step 3: a ranks strictly before b when a's value per unit of gain is
\* greater (compared exactly, by cross-multiplication).
Better(a, b) == a.Value * b.Gain > b.Value * a.Gain

\* Stable insertion of e into a ranked sequence: after every lot that is
\* not strictly worse than e.
RECURSIVE InsertRanked(_, _)
InsertRanked(e, s) ==
    IF s = <<>> THEN <<e>>
    ELSE IF Better(e, Head(s)) THEN <<e>> \o s
    ELSE <<Head(s)>> \o InsertRanked(e, Tail(s))

RECURSIVE Rank(_)
Rank(s) ==
    IF s = <<>> THEN <<>>
    ELSE InsertRanked(s[Len(s)], Rank(SubSeq(s, 1, Len(s) - 1)))

\* The units of lot e that fit in room: floor(room / gain), clamped.
Clamp(n, lo, hi) == IF n < lo THEN lo ELSE IF n > hi THEN hi ELSE n

UnitsWithin(e, room) == Clamp(room \div e.Gain, 0, e.N)

\* Step 4: sell each ranked lot whole while it fits; truncate the first one
\* that does not; every later lot gets nothing.
RECURSIVE Walk(_, _)
Walk(ranked, room) ==
    IF ranked = <<>> THEN <<>>
    ELSE LET e == Head(ranked)
         IN  IF LotGain(e) <= room
             THEN <<e>> \o Walk(Tail(ranked), room - LotGain(e))
             ELSE << [e EXCEPT !.N = UnitsWithin(e, room)] >>

\* Solve: all of the loss or neutral lots, then the walk over the ranked
\* gain lots; lots of which nothing is sold are left out of the result.
Solve(lots, cap) ==
    LET chosen == LossLots(lots) \o
                    (IF Headroom(lots, cap) <= 0 THEN <<>>
                     ELSE Walk(Rank(GainLots(lots)), Headroom(lots, cap)))
    IN  SelectSeq(chosen, LAMBDA e : e.N > 0)

\* ------------------------------------------------------------------ solve
\* statement.EntryLess: the statement's ordering of its entries.
EntryLess(a, b) == a.Index < b.Index

\* sort.Slice(soln, ...) by EntryLess over the entries' IDs.
RECURSIVE InsertSorted(_, _)
InsertSorted(e, s) ==
    IF s = <<>> THEN <<e>>
    ELSE IF EntryLess(e.ID, Head(s).ID) THEN <<e>> \o s
    ELSE <<Head(s)>> \o InsertSorted(e, Tail(s))

RECURSIVE SortSoln(_)
SortSoln(s) ==
    IF s = <<>> THEN <<>> ELSE InsertSorted(Head(s), SortSoln(Tail(s)))

\* The accumulators of solve()'s loop over the sorted solution.
Shares(elt) == elt.N

Basis(elt) == elt.N * elt.ID.IssuePrice

PerShare(elt) == elt.Value

\* The accumulators as they would be with the wrong operand: the value not
\* multiplied by the share count, the gains taken from the value, the cost
\* basis taken from the sale price.
SoldValueUnscaled(s) == SumSeq(PerShare, s)

SoldGainsFromValue(s) == SumSeq(LotValue, s)

CostBasisAtPrice(s) == SumSeq(LotValue, s)

SoldShares(s) == SumSeq(Shares, s)

SoldValue(s) == SumSeq(LotValue, s)

SoldGains(s) == SumSeq(LotGain, s)

CostBasis(s) == SumSeq(Basis, s)

Tax(gains, rate) == IF rate > 0 THEN TruncDiv(gains * rate, 100) ELSE 0

\* The cosmetic portfolio totals main prints.
EntShares(e) == e.Available

EntValue(e) == e.Available * e.Price

EntGain(e) == e.Available * e.Gain

EntBasis(e) == e.Available * e.IssuePrice

\* ----------------------------------------------------------------- actions
Init ==
    /\ pc = "start"
    /\ stmt = <<>>
    /\ ageMonths = DefaultAgeMonths
    /\ planFilter = DefaultPlan
    /\ allowLoss = FALSE
    /\ taxRate = DefaultTaxRate
    /\ maxGain = 0
    /\ es = <<>>
    /\ totalShares = 0 /\ totalValue = 0 /\ totalGain = 0 /\ totalBasis = 0
    /\ soln = <<>>
    /\ soldShares = 0 /\ soldValue = 0 /\ soldGains = 0 /\ costBasis = 0
    /\ tax = 0

\* main, up to the summary: the flags are parsed, the statement is read and
\* filtered, the portfolio totals are computed and the header is printed.
MainParse ==
    /\ pc = "start"
    /\ \E rows \in Statements, cap \in Caps, loss \in BOOLEAN,
          plan \in {DefaultPlan, ""}, rate \in {0, DefaultTaxRate} :
        /\ stmt' = rows
        /\ maxGain' = cap
        /\ allowLoss' = loss
        /\ planFilter' = plan
        /\ taxRate' = rate
        /\ es' = ParseXLS(rows, ageMonths, plan, loss)
        /\ totalShares' = SumSeq(EntShares, es')
        /\ totalValue' = SumSeq(EntValue, es')
        /\ totalGain' = SumSeq(EntGain, es')
        /\ totalBasis' = SumSeq(EntBasis, es')
    /\ pc' = "parsed"
    /\ UNCHANGED <<ageMonths, soln, soldShares, soldValue, soldGains, costBasis, tax>>

\* main's log.Fatal exits: no input path, a tax rate outside 0..100, a cap
\* or market price that is no USD amount, an unreadable or malformed file.
MainFatal ==
    /\ pc = "start"
    /\ \E inputPath \in {"", "gl.xls"}, rate \in {-1, DefaultTaxRate, 101},
          wellFormed \in BOOLEAN :
        \/ inputPath = ""
        \/ rate < 0 \/ rate > 100
        \/ ~wellFormed
    /\ pc' = "fatal"
    /\ UNCHANGED <<stmt, ageMonths, planFilter, allowLoss, taxRate, maxGain, es,
                   totalShares, totalValue, totalGain, totalBasis,
                   soln, soldShares, soldValue, soldGains, costBasis, tax>>

\* main with -summary: the available shares are listed and main returns.
MainSummary ==
    /\ pc = "parsed"
    /\ pc' = "summary"
    /\ UNCHANGED <<stmt, ageMonths, planFilter, allowLoss, taxRate, maxGain, es,
                   totalShares, totalValue, totalGain, totalBasis,
                   soln, soldShares, soldValue, soldGains, costBasis, tax>>

\* solve(es, maxGain): allocate, sort into statement order, total, print.
SolveAct ==
    /\ pc = "parsed"
    /\ soln' = SortSoln(Solve(es2e(es), maxGain))
    /\ soldShares' = SoldShares(soln')
    /\ soldValue' = SoldValue(soln')
    /\ soldGains' = SoldGains(soln')
    /\ costBasis' = CostBasis(soln')
    /\ tax' = Tax(soldGains', taxRate)
    /\ pc' = "solved"
    /\ UNCHANGED <<stmt, ageMonths, planFilter, allowLoss, taxRate, maxGain, es,
                   totalShares, totalValue, totalGain, totalBasis>>

Next == MainParse \/ MainFatal \/ MainSummary \/ SolveAct

Spec == Init /\ [][Next]_vars

\* ------------------------------------------------- vocabulary of the claims
Solved == pc = "solved"

Idx(s) == 1..Len(s)

RECURSIVE SetSum(_, _)
SetSum(f(_), S) ==
    IF S = {} THEN 0
    ELSE LET x == CHOOSE y \in S : TRUE IN f(x) + SetSum(f, S \ {x})

\* The units of statement entry e in the printed plan (absent counts as 0).
UnitsSold(e) ==
    IF \E i \in Idx(soln) : soln[i].ID = e
    THEN soln[CHOOSE i \in Idx(soln) : soln[i].ID = e].N
    ELSE 0

Entries == { es[i] : i \in Idx(es) }

GainEntries == { e \in Entries : e.Gain > 0 }

LossEntries == { e \in Entries : e.Gain <= 0 }

\* The gain realised by selling every loss or neutral entry in full.
LossTotal == SetSum(EntGain, LossEntries)

PlanHeadroom == maxGain - LossTotal

PlanGain(e) == UnitsSold(e) * e.Gain

PlanValue(e) == UnitsSold(e) * e.Price

\* Every way of selling 0..Available shares of each entry handed to solve().
MostAvailable ==
    IF Entries = {} THEN 0
    ELSE LET e == CHOOSE x \in Entries : \A y \in Entries : y.Available <= x.Available
         IN  e.Available

Allocations ==
    { a \in [Idx(es) -> 0..MostAvailable] : \A i \in Idx(es) : a[i] <= es[i].Available }

RECURSIVE AllocSum(_, _, _)
AllocSum(a, f(_), n) == IF n = 0 THEN 0 ELSE a[n] * f(es[n]) + AllocSum(a, f, n - 1)

PerShareGain(e) == e.Gain

PerShareValue(e) == e.Price

C2_Optimal ==
    Solved =>
        \A a \in Allocations :
            AllocSum(a, PerShareGain, Len(es)) <= maxGain
                => AllocSum(a, PerShareValue, Len(es)) <= soldValue

\* C3: boundedness: every line of the plan sells a whole number of shares
\* of an entry handed to solve(), more than none and no more than the
\* entry has available, and no entry has two lines.
C3_Bounded ==
    Solved =>
        /\ \A i \in Idx(soln) :
              /\ soln[i].ID \in Entries
              /\ soln[i].N \in Int
              /\ 0 <= soln[i].N /\ soln[i].N <= soln[i].ID.Available
        /\ \A i, j \in Idx(soln) : soln[i].ID = soln[j].ID => i = j
        /\ \A e \in Entries : 0 <= UnitsSold(e) /\ UnitsSold(e) <= e.Available

\* C3 witness: a plan that sells one lot whole and a part of another.
C3_Witness ==
    /\ Solved
    /\ \E e \in Entries : UnitsSold(e) = e.Available
    /\ \E e \in Entries : 0 < UnitsSold(e) /\ UnitsSold(e) < e.Available

\* C4: every entry handed to solve() whose per-share gain is zero or
\* negative is sold in full, whatever the cap.
C4_LossLotsSoldWhole ==
    Solved => \A e \in LossEntries : UnitsSold(e) = e.Available

\* C4 witness: a loss lot and a neutral lot sold whole under a negative cap
\* that the losses do not reach.
C4_Witness ==
    /\ Solved /\ maxGain < 0 /\ PlanHeadroom < 0
    /\ \E e \in LossEntries : e.Gain < 0 /\ UnitsSold(e) = e.Available
    /\ \E e \in LossEntries : e.Gain = 0 /\ UnitsSold(e) = e.Available
    /\ GainEntries # {}

\* C5: monotonicity: for the lots handed to solve(), no cap below the one
\* given yields a plan of greater total value than the plan printed.
C5_Monotone ==
    Solved =>
        \A g \in Caps :
            g <= maxGain => SumSeq(LotValue, Solve(es2e(es), g)) <= soldValue

\* C5 witness: a lower cap yields a plan of strictly smaller value.
C5_Witness ==
    /\ Solved
    /\ \E g \in Caps :
          /\ g < maxGain
          /\ SumSeq(LotValue, Solve(es2e(es), g)) < soldValue
          /\ SumSeq(LotValue, Solve(es2e(es), g)) > 0

\* What solve() leaves behind when it has run to its end with a plan.
AllocationReturned ==
    /\ Solved
    /\ \A i \in Idx(soln) :
          soln[i].ID \in Entries /\ soln[i].N \in 1..soln[i].ID.Available
    /\ es = <<>> => soln = <<>> /\ soldShares = 0
    /\ PlanHeadroom <= 0 => \A e \in GainEntries : UnitsSold(e) = 0

\* C6: totality: once the statement is parsed, the run never ends in an
\* error: unless only the summary was asked for, solve() runs to its end
\* and yields an allocation over the entries it was given; no entries give
\* the empty plan; a cap that leaves no headroom gives a plan that sells
\* nothing of any gain lot.
C6_Total ==
    [][pc = "parsed" => (pc' = "summary" \/ AllocationReturned')]_vars

\* C6 witness: gain lots on offer under a cap that admits none of them.
C6_Witness ==
    /\ Solved /\ PlanHeadroom <= 0
    /\ GainEntries # {}
    /\ \A e \in GainEntries : UnitsSold(e) = 0

\* C7: a statement row with a negative share count ends the run in an
\* error: no plan is ever printed for such a statement.
C7_NegativeUnitsRejected ==
    (\E i \in Idx(stmt) : stmt[i].Available < 0) => pc # "solved"

\* C8: without -loss every entry handed to solve() has gain >= 0 and shares
\* available, no line of the plan has a negative gain and Sold gains is not
\* negative; with -loss every row at a loss that has shares available and
\* passes the age and plan filters is handed to solve().
C8_LossExcludedByDefault ==
    pc \in {"parsed", "summary", "solved"} =>
        /\ ~allowLoss =>
              /\ \A e \in Entries : e.Gain >= 0 /\ e.Available > 0
              /\ \A i \in Idx(soln) : soln[i].Gain >= 0 /\ soln[i].ID.Gain >= 0
              /\ soldGains >= 0
        /\ allowLoss =>
              \A i \in Idx(stmt) :
                  ( /\ stmt[i].Gain < 0
                    /\ stmt[i].Available > 0
                    /\ stmt[i].Acquired < 0 - ageMonths
                    /\ (planFilter = "" \/ stmt[i].Plan = planFilter) )
                  => stmt[i] \in Entries

\* C8 witness: without -loss, a plan printed for a statement that holds an
\* old enough loss lot of the chosen plan.
C8_Witness ==
    /\ Solved /\ ~allowLoss /\ soln # <<>>
    /\ \E i \in Idx(stmt) :
          /\ stmt[i].Gain < 0 /\ stmt[i].Available > 0
          /\ stmt[i].Acquired < 0 - ageMonths /\ stmt[i].Plan = planFilter

\* The ranking of C9, stated on the statement entries: a comes before b
\* when its price per unit of gain is greater, or equal with a earlier.
Precedes(a, b) ==
    \/ a.Price * b.Gain > b.Price * a.Gain
    \/ a.Price * b.Gain = b.Price * a.Gain /\ a.Index < b.Index

GainBefore(e) == SetSum(EntGain, { x \in GainEntries : Precedes(x, e) })

Min(a, b) == IF a <= b THEN a ELSE b

Max(a, b) == IF a >= b THEN a ELSE b

ShapeUnits(e) ==
    IF PlanHeadroom <= 0 THEN 0
    ELSE IF GainBefore(e) + EntGain(e) <= PlanHeadroom THEN e.Available
    ELSE IF GainBefore(e) <= PlanHeadroom
         THEN Min(e.Available, Max(0, (PlanHeadroom - GainBefore(e)) \div e.Gain))
    ELSE 0

\* C9: greedy prefix shape: in ranking order the plan sells a prefix of the
\* gain lots whole, floor(remaining headroom / gain) shares of the first
\* lot that does not fit, and nothing of the lots after it; nothing of any
\* gain lot when the headroom is not positive; at most one partial lot.
C9_GreedyPrefix ==
    Solved =>
        /\ \A e \in GainEntries : UnitsSold(e) = ShapeUnits(e)
        /\ Cardinality({ e \in GainEntries :
                           0 < UnitsSold(e) /\ UnitsSold(e) < e.Available }) <= 1

\* C9 witness: three gain lots: one sold whole, one in part, one not at all.
C9_Witness ==
    /\ Solved
    /\ \E a, b, c \in GainEntries :
          /\ Precedes(a, b) /\ Precedes(b, c)
          /\ UnitsSold(a) = a.Available
          /\ 0 < UnitsSold(b) /\ UnitsSold(b) < b.Available
          /\ UnitsSold(c) = 0

\* What the allocator returned to solve(), before sort.Slice.
Returned == Solve(es2e(es), maxGain)

Range(s) == { s[i] : i \in Idx(s) }

Orders(s) == { p \in [Idx(s) -> Idx(s)] : \A i, j \in Idx(s) : p[i] = p[j] => i = j }

Reorder(s, p) == [i \in Idx(s) |-> s[p[i]]]

\* C10: the sort in solve() only permutes what the allocator returned, and
\* the four printed totals are the sums over that same set of lines, in
\* whatever order the allocator returned them.
C10_ReportKeepsAllocation ==
    Solved =>
        /\ Len(soln) = Len(Returned)
        /\ Range(soln) = Range(Returned)
        /\ soldShares = SetSum(Shares, Range(Returned))
        /\ soldValue = SetSum(LotValue, Range(Returned))
        /\ soldGains = SetSum(LotGain, Range(Returned))
        /\ costBasis = SetSum(Basis, Range(Returned))
        /\ \A p \in Orders(Returned) : SortSoln(Reorder(Returned, p)) = soln

\* C10 witness: the allocator returned its lines out of statement order.
C10_Witness ==
    /\ Solved
    /\ Len(soln) >= 2
    /\ soln # Returned

====
